---- MODULE Spec2Model ----
(***************************************************************************)
(* Transcript acquisition pipeline of trends-agent:                        *)
(*   src/src/scouts/transcript_scout.py  (TranscriptScout)                 *)
(*   src/main.py                         (transcript stage of main)        *)
(* Python strings are TLA+ strings (Len, SubSeq and \o apply to them).     *)
(***************************************************************************)
EXTENDS Integers, Sequences, FiniteSets, TLC

None == "<None>"

-----------------------------------------------------------------------------
(* String helpers: the Python string operations the code uses.             *)

\* Python: s[i-1:j] (1-based, inclusive), clipped to the string
Slice(s, i, j) ==
    LET lo == IF i < 1 THEN 1 ELSE i
        hi == IF j > Len(s) THEN Len(s) ELSE j
    IN  IF lo > hi THEN "" ELSE SubSeq(s, lo, hi)

CharAt(s, i) == Slice(s, i, i)

\* Python: sub in s
Contains(s, sub) ==
    \E i \in 1..(Len(s) - Len(sub) + 1) : Slice(s, i, i + Len(sub) - 1) = sub

\* Python: s.startswith(prefix)
StartsWith(s, prefix) ==
    /\ Len(prefix) <= Len(s)
    /\ Slice(s, 1, Len(prefix)) = prefix

\* first index >= from at which sub occurs in s, 0 when there is none
RECURSIVE IndexFrom(_, _, _)
IndexFrom(s, sub, from) ==
    IF from + Len(sub) - 1 > Len(s) THEN 0
    ELSE IF Slice(s, from, from + Len(sub) - 1) = sub THEN from
    ELSE IndexFrom(s, sub, from + 1)

UpperChars == "ABCDEFGHIJKLMNOPQRSTUVWXYZ"
LowerChars == "abcdefghijklmnopqrstuvwxyz"
DigitChars == "0123456789"

LowerChar(c) ==
    IF Contains(UpperChars, c)
    THEN CharAt(LowerChars, IndexFrom(UpperChars, c, 1))
    ELSE c

\* Python: s.lower()
RECURSIVE Lower(_)
Lower(s) == IF Len(s) = 0 THEN "" ELSE LowerChar(Head(s)) \o Lower(Tail(s))

\* Python: dict.get(key, default)
Get(d, key, default) == IF key \in DOMAIN d THEN d[key] ELSE default

\* Python: any(x in s for x in list)
AnyIn(list, s) == \E i \in 1..Len(list) : Contains(s, list[i])

-----------------------------------------------------------------------------
(* Transcript-potential scorer: has_good_transcript_potential.             *)

high_transcript_categories ==
    <<"news", "education", "science", "technology", "people", "blogs",
      "comedy", "entertainment", "howto", "style">>

low_transcript_categories == <<"music", "gaming", "sports", "film", "animation">>

speech_indicators ==
    <<"interview", "explains", "talks", "discusses", "review", "tutorial",
      "guide", "news", "podcast", "commentary", "analysis", "breakdown",
      "reaction", "story", "documentary", "vlog", "q&a">>

non_speech_indicators ==
    <<"official music video", "lyrics", "instrumental", "soundtrack",
      "audio only", "full album", "remix", "beat", "cover", "compilation",
      "mix", "playlist", "highlights">>

DurationScoreNoShortPenalty(duration) ==
    IF duration > 1800 THEN 3
    ELSE IF duration > 600 THEN 2
    ELSE IF duration > 180 THEN 1
    ELSE 0

DurationScoreInclusive(duration) ==
    IF duration >= 1800 THEN 3
    ELSE IF duration >= 600 THEN 2
    ELSE IF duration >= 180 THEN 1
    ELSE IF duration < 60 THEN -2
    ELSE 0

DurationScore(duration) ==
    IF duration > 1800 THEN 3
    ELSE IF duration > 600 THEN 2
    ELSE IF duration > 180 THEN 1
    ELSE IF duration < 60 THEN -2
    ELSE 0

CategoryScore(category) ==
    IF AnyIn(high_transcript_categories, category) THEN 3
    ELSE IF AnyIn(low_transcript_categories, category) THEN -3
    ELSE 0

TitleScoreExclusive(title) ==
    IF AnyIn(speech_indicators, title) THEN 2
    ELSE IF AnyIn(non_speech_indicators, title) THEN -3
    ELSE 0

TitleScore(title) ==
    (IF AnyIn(speech_indicators, title) THEN 2 ELSE 0)
    + (IF AnyIn(non_speech_indicators, title) THEN -3 ELSE 0)

SpecialScore(title, category) ==
    (IF Contains(title, "live") \/ Contains(title, "stream") THEN 1 ELSE 0)
    + (IF Contains(title, "cover") /\ Contains(category, "music") THEN -2 ELSE 0)

\* the local variable `score` at the return statement
score(video_data) ==
    LET title    == Lower(Get(video_data, "title", ""))
        category == Lower(Get(video_data, "category_name", ""))
        duration == Get(video_data, "duration_seconds", 0)
    IN  DurationScore(duration) + CategoryScore(category)
        + TitleScore(title) + SpecialScore(title, category)

has_potential_lenient(video_data) == score(video_data) >= -5

has_good_transcript_potential(video_data) == score(video_data) >= 0

-----------------------------------------------------------------------------
(* Video-ID resolver: _extract_video_id.                                   *)

IdLen == 11

\* the character class [a-zA-Z0-9_-]
IsIdChar(c) ==
    \/ Contains(UpperChars, c)
    \/ Contains(LowerChars, c)
    \/ Contains(DigitChars, c)
    \/ c = "_"
    \/ c = "-"

AllIdChars(s) == \A i \in 1..Len(s) : IsIdChar(CharAt(s, i))

\* ([a-zA-Z0-9_-]{11}) matched at position p of s
IdAt(s, p) ==
    /\ p >= 1
    /\ p + IdLen - 1 <= Len(s)
    /\ AllIdChars(Slice(s, p, p + IdLen - 1))

\* r'(?:youtube\.com/watch\?v=|youtu\.be/|youtube\.com/embed/)([a-zA-Z0-9_-]{11})'
Pattern1Prefixes == <<"youtube.com/watch?v=", "youtu.be/", "youtube.com/embed/">>

\* the group-1 start of a match of pattern 1 that begins at position p, or 0
Pattern1At(s, p) ==
    IF \E k \in 1..Len(Pattern1Prefixes) :
           /\ IndexFrom(s, Pattern1Prefixes[k], p) = p
           /\ IdAt(s, p + Len(Pattern1Prefixes[k]))
    THEN LET k == CHOOSE k \in 1..Len(Pattern1Prefixes) :
                      /\ IndexFrom(s, Pattern1Prefixes[k], p) = p
                      /\ IdAt(s, p + Len(Pattern1Prefixes[k]))
         IN  p + Len(Pattern1Prefixes[k])
    ELSE 0

\* r'youtube\.com/watch\?.*v=([a-zA-Z0-9_-]{11})' begun at p: '.*' is greedy,
\* so group 1 is taken after the last 'v=' that is followed by 11 id characters
Pattern2Head == "youtube.com/watch?"

Pattern2At(s, p) ==
    IF IndexFrom(s, Pattern2Head, p) # p THEN 0
    ELSE LET from == p + Len(Pattern2Head)
             ends == {q \in from..Len(s) :
                          /\ Slice(s, q, q + 1) = "v="
                          /\ IdAt(s, q + 2)}
         IN  IF ends = {} THEN 0
             ELSE (CHOOSE q \in ends : \A r \in ends : r <= q) + 2

\* re.search: group 1 of the match at the leftmost position at which the
\* pattern matches; at[p] is the group-1 start of a match begun at p, or 0
SearchGroup(s, at) ==
    LET starts == {p \in 1..Len(s) : at[p] # 0}
    IN  IF starts = {} THEN None
        ELSE LET p == CHOOSE p \in starts : \A r \in starts : p <= r
             IN  Slice(s, at[p], at[p] + IdLen - 1)

Pattern1Search(s) == SearchGroup(s, [p \in 1..Len(s) |-> Pattern1At(s, p)])

Pattern2Search(s) == SearchGroup(s, [p \in 1..Len(s) |-> Pattern2At(s, p)])

\* first index >= from of a character of `chars`, Len(s)+1 when there is none
RECURSIVE FirstOf(_, _, _)
FirstOf(s, chars, from) ==
    IF from > Len(s) THEN Len(s) + 1
    ELSE IF Contains(chars, CharAt(s, from)) THEN from
    ELSE FirstOf(s, chars, from + 1)

\* urllib.parse.urlparse, for inputs without userinfo, port, ';params' or
\* tab and newline characters:
\* [scheme:][//netloc][path][?query][#fragment]
urlparse(url) ==
    LET colon    == IndexFrom(url, ":", 1)
        hasSch   == /\ colon > 1
                    /\ \A i \in 1..(colon - 1) :
                           Contains(UpperChars \o LowerChars \o DigitChars \o "+-.",
                                    CharAt(url, i))
                    /\ Contains(UpperChars \o LowerChars, CharAt(url, 1))
        rest0    == IF hasSch THEN colon + 1 ELSE 1
        hasNet   == Slice(url, rest0, rest0 + 1) = "//"
        netFrom  == rest0 + 2
        netEnd   == FirstOf(url, "/?#", netFrom)
        pathFrom == IF hasNet THEN netEnd ELSE rest0
        fragAt   == FirstOf(url, "#", pathFrom)
        qAt0     == FirstOf(url, "?", pathFrom)
        qAt      == IF qAt0 < fragAt THEN qAt0 ELSE fragAt
    IN  [hostname |-> IF hasNet /\ netEnd > netFrom
                      THEN Lower(Slice(url, netFrom, netEnd - 1))
                      ELSE None,
         path     |-> Slice(url, pathFrom, qAt - 1),
         query    |-> IF qAt < fragAt THEN Slice(url, qAt + 1, fragAt - 1) ELSE ""]

\* urllib.parse.parse_qs(query)['v'][0] for queries without percent-escapes
\* or '+': fields are split on '&', a field without '=' or with a blank value
\* is dropped; None when no field is named 'v'
RECURSIVE QueryV(_)
QueryV(query) ==
    IF Len(query) = 0 THEN None
    ELSE LET amp   == FirstOf(query, "&", 1)
             field == Slice(query, 1, amp - 1)
             eq    == IndexFrom(field, "=", 1)
             rest  == Slice(query, amp + 1, Len(query))
         IN  IF /\ eq > 0
                /\ Slice(field, 1, eq - 1) = "v"
                /\ eq < Len(field)
             THEN Slice(field, eq + 1, Len(field))
             ELSE QueryV(rest)

\* Python: path.lstrip('/')
RECURSIVE LStripSlash(_)
LStripSlash(s) ==
    IF Len(s) > 0 /\ Head(s) = "/" THEN LStripSlash(Tail(s)) ELSE s

\* the 'Try parsing as URL' block
ParseAsUrl(video_input) ==
    LET parsed == urlparse(video_input)
    IN  IF parsed.hostname \in {"youtube.com", "www.youtube.com"}
        THEN LET v == QueryV(parsed.query)
             IN  IF v # None /\ Len(v) = IdLen THEN v ELSE None
        ELSE IF parsed.hostname \in {"youtu.be"}
        THEN LET v == LStripSlash(parsed.path)
             IN  IF Len(v) = IdLen THEN v ELSE None
        ELSE None

\* re.match(r'^[a-zA-Z0-9_-]+$', s): '$' also matches before a final newline
MatchesIdPattern(s) ==
    \/ Len(s) >= 1 /\ AllIdChars(s)
    \/ /\ Len(s) >= 2
       /\ CharAt(s, Len(s)) = "\n"
       /\ AllIdChars(Slice(s, 1, Len(s) - 1))

_extract_video_id(video_input) ==
    IF video_input = None \/ video_input = "" THEN None
    ELSE IF Len(video_input) = IdLen /\ MatchesIdPattern(video_input) THEN video_input
    ELSE IF Pattern1Search(video_input) # None
         THEN Pattern1Search(video_input)
    ELSE IF Pattern2Search(video_input) # None
         THEN Pattern2Search(video_input)
    ELSE ParseAsUrl(video_input)

-----------------------------------------------------------------------------
(* Transcript formatter and derived fields.                                *)

WhitespaceChars == " \t\n\r"

IsSpace(c) == Contains(WhitespaceChars, c)

\* Python: s.strip()
RECURSIVE LStrip(_)
LStrip(s) == IF Len(s) > 0 /\ IsSpace(Head(s)) THEN LStrip(Tail(s)) ELSE s

RECURSIVE RStrip(_)
RStrip(s) ==
    IF Len(s) > 0 /\ IsSpace(CharAt(s, Len(s)))
    THEN RStrip(Slice(s, 1, Len(s) - 1))
    ELSE s

Strip(s) == RStrip(LStrip(s))

\* re.sub(r'\[.*?\]', '', text): every leftmost '[' that has a ']' after it
\* on the same line is removed together with the shortest span up to ']'
RECURSIVE StripBrackets(_)
StripBrackets(s) ==
    LET open == {i \in 1..Len(s) :
                    /\ CharAt(s, i) = "["
                    /\ FirstOf(s, "]\n", i + 1) <= Len(s)
                    /\ CharAt(s, FirstOf(s, "]\n", i + 1)) = "]"}
    IN  IF open = {} THEN s
        ELSE LET i == CHOOSE i \in open : \A j \in open : i <= j
                 c == FirstOf(s, "]", i + 1)
             IN  Slice(s, 1, i - 1) \o StripBrackets(Slice(s, c + 1, Len(s)))

\* re.sub(r'\s+', ' ', text)
RECURSIVE CollapseWhitespace(_)
CollapseWhitespace(s) ==
    IF Len(s) = 0 THEN ""
    ELSE IF IsSpace(Head(s))
         THEN " " \o CollapseWhitespace(LStrip(s))
         ELSE Head(s) \o CollapseWhitespace(Tail(s))

\* Python: sep.join(parts)
RECURSIVE Join(_, _)
Join(parts, sep) ==
    IF Len(parts) = 0 THEN ""
    ELSE IF Len(parts) = 1 THEN parts[1]
    ELSE parts[1] \o sep \o Join(Tail(parts), sep)

\* the 'Fallback formatting' loop
RECURSIVE FallbackParts(_)
FallbackParts(transcript_data) ==
    IF Len(transcript_data) = 0 THEN <<>>
    ELSE LET text == Strip(Get(Head(transcript_data), "text", ""))
             rest == FallbackParts(Tail(transcript_data))
         IN  IF text # ""
             THEN <<CollapseWhitespace(StripBrackets(text))>> \o rest
             ELSE rest

\* the 'Emergency fallback' comprehension
RECURSIVE RawParts(_)
RawParts(transcript_data) ==
    IF Len(transcript_data) = 0 THEN <<>>
    ELSE LET text == Get(Head(transcript_data), "text", "")
             rest == RawParts(Tail(transcript_data))
         IN  IF text # "" THEN <<text>> \o rest ELSE rest

\* TextFormatter.format_transcript of the captioning library: one line per cue
RECURSIVE LibraryParts(_)
LibraryParts(transcript_data) ==
    IF Len(transcript_data) = 0 THEN <<>>
    ELSE <<Head(transcript_data).text>> \o LibraryParts(Tail(transcript_data))

_format_transcript_drops_on_error(transcript_data, has_formatter, cleaning_raises) ==
    IF Len(transcript_data) = 0 THEN ""
    ELSE IF cleaning_raises THEN ""
    ELSE IF has_formatter THEN Join(LibraryParts(transcript_data), "\n")
    ELSE Join(FallbackParts(transcript_data), " ")

\* has_formatter: self.formatter is set; cleaning_raises: the formatting in
\* the try block raises
_format_transcript(transcript_data, has_formatter, cleaning_raises) ==
    IF Len(transcript_data) = 0 THEN ""
    ELSE IF cleaning_raises THEN Join(RawParts(transcript_data), " ")
    ELSE IF has_formatter THEN Join(LibraryParts(transcript_data), "\n")
    ELSE Join(FallbackParts(transcript_data), " ")

\* Python: len(text.split())
RECURSIVE WordCount(_)
WordCount(text) ==
    LET t == LStrip(text)
    IN  IF Len(t) = 0 THEN 0
        ELSE 1 + WordCount(Slice(t, FirstOf(t, WhitespaceChars, 1), Len(t)))

_calculate_duration_covered_unclamped(transcript_data) ==
    IF Len(transcript_data) = 0 THEN 0
    ELSE LET start_time == Get(transcript_data[1], "start", 0)
             last_entry == transcript_data[Len(transcript_data)]
             end_time   == Get(last_entry, "start", 0) + Get(last_entry, "duration", 0)
         IN  end_time - start_time

\* the cue values are numbers, as the captioning service delivers them
_calculate_duration_covered(transcript_data) ==
    IF Len(transcript_data) = 0 THEN 0
    ELSE LET start_time == Get(transcript_data[1], "start", 0)
             last_entry == transcript_data[Len(transcript_data)]
             end_time   == Get(last_entry, "start", 0) + Get(last_entry, "duration", 0)
         IN  IF end_time - start_time > 0 THEN end_time - start_time ELSE 0

-----------------------------------------------------------------------------
(* The captioning library as the module imports it.                        *)
(*   "full"     every error class imports, TooManyRequests included        *)
(*   "no_tmr"   TooManyRequests is missing and bound to YouTubeRequestFailed *)
(*   "missing"  the import failed: every name is bound to Exception        *)

ApiVariants == {"full", "no_tmr", "missing"}

api_available_always(variant) == TRUE

TRANSCRIPT_API_AVAILABLE(variant) == variant # "missing"

\* what a call into the library can raise; "Other" is any other Exception
RaisedKinds(variant) ==
    {"TranscriptsDisabled", "NoTranscriptFound", "VideoUnavailable",
     "YouTubeRequestFailed", "Other"}
    \cup (IF variant = "full" THEN {"TooManyRequests"} ELSE {})

\* isinstance(e, <the class bound to name>) for a raised kind e
IsInstance(variant, e, name) ==
    IF variant = "missing" \/ name = "Exception" THEN TRUE
    ELSE IF name = "TooManyRequests" /\ variant = "no_tmr"
         THEN e = "YouTubeRequestFailed"
    ELSE e = name

-----------------------------------------------------------------------------
(* Results.                                                                *)

Absent == [kind |-> "absent"]

Raise(e) == [kind |-> "raise", exc |-> e]

Return(v) == [kind |-> "return", value |-> v]

-----------------------------------------------------------------------------
(* Language resolution: the three passes of _attempt_transcript_fetch.     *)

\* TranscriptList.find_transcript([lang_code]) of the captioning library:
\* the manually created track with that code, else the generated one;
\* 0 stands for NoTranscriptFound
find_transcript(transcript_list, lang_code) ==
    LET manual == {i \in 1..Len(transcript_list) :
                      /\ ~transcript_list[i].is_generated
                      /\ transcript_list[i].language_code = lang_code}
        gen    == {i \in 1..Len(transcript_list) :
                      /\ transcript_list[i].is_generated
                      /\ transcript_list[i].language_code = lang_code}
    IN  IF manual # {} THEN CHOOSE i \in manual : \A j \in manual : i <= j
        ELSE IF gen # {} THEN CHOOSE i \in gen : \A j \in gen : i <= j
        ELSE 0

Min(S) == CHOOSE i \in S : \A j \in S : i <= j

NoChoice == [track |-> 0, found_language |-> None, pass |-> 0]

\* first pass: exact language matches, in preference order
ExactChoice(transcript_list, lang_code) ==
    [track          |-> find_transcript(transcript_list, lang_code),
     found_language |-> lang_code,
     pass           |-> 1]

RECURSIVE ExactPassFrom(_, _, _)
ExactPassFrom(transcript_list, language_codes, k) ==
    IF k > Len(language_codes) THEN NoChoice
    ELSE IF find_transcript(transcript_list, language_codes[k]) # 0
    THEN ExactChoice(transcript_list, language_codes[k])
    ELSE ExactPassFrom(transcript_list, language_codes, k + 1)

ExactPass(transcript_list, language_codes) ==
    ExactPassFrom(transcript_list, language_codes, 1)

GeneratedPassListingOrder(transcript_list, language_codes) ==
    LET generated == {i \in 1..Len(transcript_list) : transcript_list[i].is_generated}
        matching  == {i \in generated :
                         \E k \in 1..Len(language_codes) :
                             StartsWith(transcript_list[i].language_code,
                                        language_codes[k])}
    IN  IF generated = {} THEN NoChoice
        ELSE LET t == IF matching # {} THEN Min(matching) ELSE Min(generated)
             IN  [track          |-> t,
                  found_language |-> transcript_list[t].language_code,
                  pass           |-> 2]

\* second pass: generated tracks, prefix match in preference order, else the
\* first generated track
GeneratedPass(transcript_list, language_codes) ==
    LET generated == {i \in 1..Len(transcript_list) : transcript_list[i].is_generated}
        matches(k) == {i \in generated :
                          StartsWith(transcript_list[i].language_code, language_codes[k])}
        hits      == {k \in 1..Len(language_codes) : matches(k) # {}}
    IN  IF generated = {} THEN NoChoice
        ELSE LET t == IF hits # {} THEN Min(matches(Min(hits))) ELSE Min(generated)
             IN  [track          |-> t,
                  found_language |-> transcript_list[t].language_code,
                  pass           |-> 2]

AnyTrackPassLast(transcript_list) ==
    IF Len(transcript_list) = 0 THEN NoChoice
    ELSE [track          |-> Len(transcript_list),
          found_language |-> transcript_list[Len(transcript_list)].language_code,
          pass           |-> 3]

\* third pass: any available track
AnyTrackPass(transcript_list) ==
    IF Len(transcript_list) = 0 THEN NoChoice
    ELSE [track          |-> 1,
          found_language |-> transcript_list[1].language_code,
          pass           |-> 3]

\* the first of the three choices that chose a track
FirstChoice(first, second, third) ==
    IF first.track # 0 THEN first
    ELSE IF second.track # 0 THEN second
    ELSE third

ChooseTrackGeneratedFirst(transcript_list, language_codes) ==
    FirstChoice(GeneratedPass(transcript_list, language_codes),
                ExactPass(transcript_list, language_codes),
                AnyTrackPass(transcript_list))

ChooseTrack(transcript_list, language_codes) ==
    FirstChoice(ExactPass(transcript_list, language_codes),
                GeneratedPass(transcript_list, language_codes),
                AnyTrackPass(transcript_list))

\* the result dictionary (raw_data and fetch_timestamp are not modelled)
ResultDict(video_id, language, track, formatted_text, transcript_data) ==
    [kind             |-> "transcript",
     video_id         |-> video_id,
     language         |-> language,
     is_generated     |-> track.is_generated,
     is_translatable  |-> track.is_translatable,
     text             |-> formatted_text,
     word_count       |-> IF formatted_text # "" THEN WordCount(formatted_text) ELSE 0,
     duration_covered |-> _calculate_duration_covered(transcript_data)]

TranscriptRecord(video_id, language, track, transcript_data, has_formatter, cleaning_raises) ==
    ResultDict(video_id, language, track,
               _format_transcript(transcript_data, has_formatter, cleaning_raises),
               transcript_data)

\* a fetch() call: the track it was made on and the service's answer
Fetched(track, answer) == [track |-> track, answer |-> answer]

\* the fetch() call of _attempt_transcript_fetch: also the pass that chose
\* the track and whether formatting the cues raised
ChosenFetch(track, answer, pass, cleaning_raised) ==
    [pass |-> pass, cleaning_raised |-> cleaning_raised] @@ Fetched(track, answer)

FetchChosenEmptyRaises(video_id, transcript_list, choice, fetch, has_formatter, cleaning_raises) ==
    IF choice.track = 0
    THEN [out |-> Raise("NoTranscriptFound"), lists |-> 1, fetched |-> <<>>]
    ELSE IF fetch.kind = "raise"
    THEN [out |-> Raise(fetch.exc), lists |-> 1,
          fetched |-> <<ChosenFetch(transcript_list[choice.track], fetch,
                                    choice.pass, FALSE)>>]
    ELSE IF Len(fetch.value) = 0
    THEN [out |-> Raise("Other"), lists |-> 1,
          fetched |-> <<ChosenFetch(transcript_list[choice.track], fetch,
                                    choice.pass, FALSE)>>]
    ELSE [out |-> Return(TranscriptRecord(video_id, choice.found_language,
                                         transcript_list[choice.track],
                                         fetch.value, has_formatter,
                                         cleaning_raises)),
          lists |-> 1,
          fetched |-> <<ChosenFetch(transcript_list[choice.track], fetch,
                                    choice.pass, cleaning_raises)>>]

\* _attempt_transcript_fetch from 'if transcript is None' on
FetchChosen(video_id, transcript_list, choice, fetch, has_formatter, cleaning_raises) ==
    IF choice.track = 0
    THEN [out |-> Raise("NoTranscriptFound"), lists |-> 1, fetched |-> <<>>]
    ELSE IF fetch.kind = "raise"
    THEN [out |-> Raise(fetch.exc), lists |-> 1,
          fetched |-> <<ChosenFetch(transcript_list[choice.track], fetch,
                                    choice.pass, FALSE)>>]
    ELSE IF Len(fetch.value) = 0
    THEN [out |-> Return(Absent), lists |-> 1,
          fetched |-> <<ChosenFetch(transcript_list[choice.track], fetch,
                                    choice.pass, FALSE)>>]
    ELSE [out |-> Return(TranscriptRecord(video_id, choice.found_language,
                                         transcript_list[choice.track],
                                         fetch.value, has_formatter,
                                         cleaning_raises)),
          lists |-> 1,
          fetched |-> <<ChosenFetch(transcript_list[choice.track], fetch,
                                    choice.pass, cleaning_raises)>>]

\* One run of _attempt_transcript_fetch against the service's answers:
\*   listing  Raise(e) or Return(tracks) for list_transcripts
\*   fetch    Raise(e) or Return(cues) for fetch() of the chosen track
\* The outcome carries what the run returns or raises, the number of listing
\* calls and the fetch() calls it made.
_attempt_transcript_fetch(video_id, language_codes, listing, fetch, has_formatter, cleaning_raises) ==
    IF listing.kind = "raise"
    THEN [out |-> Raise(listing.exc), lists |-> 1, fetched |-> <<>>]
    ELSE FetchChosen(video_id, listing.value,
                     ChooseTrack(listing.value, language_codes),
                     fetch, has_formatter, cleaning_raises)

-----------------------------------------------------------------------------
(* Retry and error classification: the except clauses of get_transcript.   *)

max_retries_one_more == 3 + 1

max_retries == 3
base_delay == 1

RECURSIVE Pow2(_)
Pow2(n) == IF n = 0 THEN 1 ELSE 2 * Pow2(n - 1)

except_clauses_without_catch_all ==
    << [names |-> {"TooManyRequests"},                         handler |-> "rate_limit"],
       [names |-> {"TranscriptsDisabled", "NoTranscriptFound"}, handler |-> "no_transcript"],
       [names |-> {"VideoUnavailable"},                        handler |-> "unavailable"],
       [names |-> {"YouTubeRequestFailed"},                    handler |-> "request_failed"] >>

except_clauses_without_unavailable ==
    << [names |-> {"TooManyRequests"},                         handler |-> "rate_limit"],
       [names |-> {"TranscriptsDisabled", "NoTranscriptFound"}, handler |-> "no_transcript"],
       [names |-> {"YouTubeRequestFailed"},                    handler |-> "request_failed"],
       [names |-> {"Exception"},                               handler |-> "unexpected"] >>

except_clauses_no_track_retried ==
    << [names |-> {"TooManyRequests"},                         handler |-> "rate_limit"],
       [names |-> {"TranscriptsDisabled"},                     handler |-> "no_transcript"],
       [names |-> {"VideoUnavailable"},                        handler |-> "unavailable"],
       [names |-> {"YouTubeRequestFailed"},                    handler |-> "request_failed"],
       [names |-> {"Exception"},                               handler |-> "unexpected"] >>

\* the except clauses in source order
except_clauses ==
    << [names |-> {"TooManyRequests"},                         handler |-> "rate_limit"],
       [names |-> {"TranscriptsDisabled", "NoTranscriptFound"}, handler |-> "no_transcript"],
       [names |-> {"VideoUnavailable"},                        handler |-> "unavailable"],
       [names |-> {"YouTubeRequestFailed"},                    handler |-> "request_failed"],
       [names |-> {"Exception"},                               handler |-> "unexpected"] >>


\* the handler of the first clause that matches e, "propagate" when none does
HandlerFor(variant, e, clauses) ==
    LET hits == {k \in 1..Len(clauses) :
                    \E n \in clauses[k].names : IsInstance(variant, e, n)}
    IN  IF hits = {} THEN "propagate" ELSE clauses[Min(hits)].handler

\* the handlers that sleep and continue while attempts are left
retrying_handlers == {"rate_limit", "request_failed", "unexpected"}

retries_left_one_more(attempt) == attempt < max_retries

\* 'if attempt < max_retries - 1' of the retrying handlers
retries_left(attempt) == attempt < max_retries - 1

wait_time_never_doubled(handler, attempt) == base_delay * Pow2(attempt)

\* time.sleep argument of a retrying handler at 0-based attempt index
wait_time(handler, attempt) ==
    IF handler = "rate_limit"
    THEN base_delay * Pow2(attempt) * 2
    ELSE base_delay * Pow2(attempt)

default_language_codes ==
    <<"en", "en-US", "en-GB", "en-CA", "en-AU",
      "es", "fr", "de", "pt", "it", "ja", "ko", "zh", "ru",
      "es-ES", "es-MX", "pt-BR", "fr-CA", "zh-CN", "zh-TW">>

\* the argument value of an omitted language_codes parameter
DefaultArg == <<None>>

-----------------------------------------------------------------------------
(* Bounded inputs and service answers.                                     *)

MaxTracks == 2

Track(name, code, generated, translatable) ==
    [language |-> name, language_code |-> code,
     is_generated |-> generated, is_translatable |-> translatable]

Tracks ==
    { Track("Spanish", "es", FALSE, TRUE),
      Track("English (auto-generated)", "en-US", TRUE, TRUE),
      Track("Spanish (auto-generated)", "es-MX", TRUE, FALSE),
      Track("French", "fr", FALSE, FALSE),
      Track("French (auto-generated)", "fr", TRUE, TRUE),
      Track("German", "de", FALSE, TRUE) }

\* track listings without repeated tracks, at most n long
ListingsUpTo(n) ==
    UNION { {l \in [1..k -> Tracks] : \A i, j \in 1..k : l[i] = l[j] => i = j}
            : k \in 0..n }

Listings == ListingsUpTo(MaxTracks)

Cue(text, start, duration) == [text |-> text, start |-> start, duration |-> duration]

CueSeqs ==
    { <<Cue("hello world", 0, 2)>>,
      <<Cue(" [Music] ", 5, 1), Cue("so  today", 6, 3)>> }

LanguageArgs == {DefaultArg, <<"en", "es">>}

ValidId == "dQw4w9WgXcQ"

VideoInputs ==
    {"", ValidId, "https://youtu.be/" \o ValidId, "not a video"}

ListingAnswers(variant) ==
    {Raise(e) : e \in RaisedKinds(variant)} \cup {Return(l) : l \in Listings}

FetchAnswers(variant) ==
    {Raise(e) : e \in RaisedKinds(variant)}
    \cup {Return(c) : c \in CueSeqs \cup {<<>>}}

\* the fetch answers offered to the candidates of get_transcript_any_language
CandidateFetchAnswers ==
    {Raise("Other"), Raise("NoTranscriptFound"), Return(<<>>)}
    \cup {Return(c) : c \in CueSeqs}

\* formatting is reached only with cues in hand
CleaningChoices(fetch) ==
    IF fetch.kind = "return" /\ Len(fetch.value) > 0 THEN BOOLEAN ELSE {FALSE}

NoAnswer == [kind |-> "none"]

-----------------------------------------------------------------------------
(* State.                                                                  *)

VARIABLES
    api_variant,      \* how the captioning library imported
    enabled,          \* self.enabled
    formatter,        \* self.formatter is not None
    pc,               \* "idle", "attempt" (inside the retry loop), "returned"
    op,               \* the public operation in progress or just returned
    video_input,      \* the video_id argument
    video_id,         \* the local video_id the service is called with
    language_codes,   \* the local language_codes
    attempt,          \* the loop variable of the retry loop
    attempt_log,      \* per attempt, how it ended and what the listing call gave
    list_calls,       \* list_transcripts calls made by the operation
    fetch_calls,      \* fetch() calls made by the operation
    waits,            \* time.sleep arguments of the operation, in order
    service_listing,  \* the service's answer to the last list_transcripts call
    fetched,          \* the fetch() calls since then: track and answer
    result,           \* the returned value
    raised,           \* an exception left the operation
    \* main(), transcript stage; the lists hold positions in trending_videos_raw,
    \* which stand for the shared dict objects
    trending_videos_raw,          \* the video dicts, in the order fetched
    trending_videos,
    high_potential_videos,
    videos_with_transcripts,
    videos_without_transcripts,
    main_pc,          \* position of main()
    cursor,           \* position of the fetch loop in high_potential_videos
    calls,            \* the scout operations main() has called, in order,
                      \* each with the video and how it returned
    \* has_good_transcript_potential called on its own
    video_data,       \* the argument
    score_result,     \* the score and the returned value
    \* a private helper called on its own
    helper            \* the helper, its argument and what it returned

scout == <<api_variant, enabled, formatter>>

call_vars == <<pc, op, video_input, video_id, language_codes, attempt,
               attempt_log, list_calls, fetch_calls, waits, service_listing,
               fetched, result, raised>>

main_vars == <<trending_videos_raw, trending_videos, high_potential_videos,
               videos_with_transcripts, videos_without_transcripts, main_pc,
               cursor, calls>>

score_vars == <<video_data, score_result, helper>>

vars == <<scout, call_vars, main_vars, score_vars>>

NoVideo == [video_id |-> None]

NoScore == [kind |-> "none"]

NoHelper == [fn |-> "none"]

\* main() is not running
MainOff ==
    /\ trending_videos_raw = <<>>
    /\ trending_videos = <<>>
    /\ high_potential_videos = <<>>
    /\ videos_with_transcripts = <<>>
    /\ videos_without_transcripts = <<>>
    /\ main_pc = "off"
    /\ cursor = 0
    /\ calls = <<>>

ScoreOff ==
    /\ video_data = NoVideo
    /\ score_result = NoScore
    /\ helper = NoHelper

\* TranscriptScout.__init__ after the module's import block
ScoutInit ==
    /\ api_variant \in ApiVariants
    /\ enabled = TRANSCRIPT_API_AVAILABLE(api_variant)
    /\ formatter = (api_variant # "missing")
    /\ pc = "idle"
    /\ op = "none"
    /\ video_input = None
    /\ video_id = None
    /\ language_codes = <<>>
    /\ attempt = 0
    /\ attempt_log = <<>>
    /\ list_calls = 0
    /\ fetch_calls = 0
    /\ waits = <<>>
    /\ service_listing = NoAnswer
    /\ fetched = <<>>
    /\ result = Absent
    /\ raised = FALSE

Init ==
    /\ ScoutInit
    /\ MainOff
    /\ ScoreOff

\* an operation returns `value` before any service call
ReturnEarly(name, input, value) ==
    /\ pc' = "returned"
    /\ op' = name
    /\ video_input' = input
    /\ result' = value
    /\ UNCHANGED <<video_id, language_codes, attempt, attempt_log, list_calls,
                   fetch_calls, waits, service_listing, fetched, raised>>

\* get_transcript up to the retry loop
GetTranscript(input, codes_arg) ==
    /\ pc = "idle"
    /\ UNCHANGED scout
    /\ IF ~enabled \/ input = "" \/ _extract_video_id(input) = None
       THEN ReturnEarly("get_transcript", input, Absent)
       ELSE /\ pc' = "attempt"
            /\ op' = "get_transcript"
            /\ video_input' = input
            /\ video_id' = _extract_video_id(input)
            /\ language_codes' = IF codes_arg = DefaultArg
                                 THEN default_language_codes
                                 ELSE codes_arg
            /\ attempt' = 0
            /\ UNCHANGED <<attempt_log, list_calls, fetch_calls, waits,
                           service_listing, fetched, result, raised>>

\* what an attempt leaves in attempt_log: the raised kind or "return", and
\* whether list_transcripts failed, listed no track or listed some
AttemptEntry(out, listing) ==
    [outcome |-> IF out.kind = "raise" THEN out.exc ELSE "return",
     listed  |-> IF listing.kind = "raise" THEN "failed"
                 ELSE IF Len(listing.value) = 0 THEN "empty"
                 ELSE "tracks"]

\* one iteration of the retry loop: the attempt and the except clause it ends in
Attempt(listing, fetch, cleaning_raises) ==
    /\ pc = "attempt"
    /\ op = "get_transcript"
    /\ attempt < max_retries
    /\ UNCHANGED <<scout, op, video_input, video_id, language_codes>>
    /\ \E r \in {_attempt_transcript_fetch(video_id, language_codes, listing, fetch,
                                            formatter, cleaning_raises)} :
       LET h == IF r.out.kind = "raise"
                THEN HandlerFor(api_variant, r.out.exc, except_clauses)
                ELSE "none"
           retrying == h \in retrying_handlers /\ retries_left(attempt)
           \* 'continue' starts the next iteration unless range() is exhausted
           looping  == retrying /\ attempt + 1 < max_retries
       IN  /\ list_calls' = list_calls + r.lists
           /\ fetch_calls' = fetch_calls + Len(r.fetched)
           /\ attempt_log' = Append(attempt_log, AttemptEntry(r.out, listing))
           /\ service_listing' = IF looping THEN NoAnswer ELSE listing
           /\ fetched' = IF looping THEN <<>> ELSE r.fetched
           /\ raised' = (h = "propagate")
           /\ result' = IF r.out.kind = "return" THEN r.out.value ELSE Absent
           /\ pc' = IF looping THEN "attempt" ELSE "returned"
           /\ attempt' = IF looping THEN attempt + 1 ELSE attempt
           /\ waits' = IF retrying THEN Append(waits, wait_time(h, attempt)) ELSE waits

CandidatesListingOrder(available_transcripts) == available_transcripts

\* the candidates of get_transcript_any_language: generated, then manual
Candidates(available_transcripts) ==
    SelectSeq(available_transcripts, LAMBDA t : t.is_generated)
    \o SelectSeq(available_transcripts, LAMBDA t : ~t.is_generated)

\* index of the first candidate whose fetch returns cues, 0 when there is none
FirstFetched(fetches) ==
    LET ok == {i \in 1..Len(fetches) :
                  fetches[i].kind = "return" /\ Len(fetches[i].value) > 0}
    IN  IF ok = {} THEN 0 ELSE Min(ok)

\* get_transcript_any_language; fetches[i] answers the fetch of candidate i
GetTranscriptAnyLanguage(input, listing, fetches, cleaning_raises) ==
    /\ pc = "idle"
    /\ UNCHANGED scout
    /\ IF ~enabled
       THEN ReturnEarly("get_transcript_any_language", input, Absent)
       ELSE /\ pc' = "returned"
            /\ op' = "get_transcript_any_language"
            /\ video_input' = input
            /\ video_id' = input
            /\ list_calls' = list_calls + 1
            /\ service_listing' = listing
            /\ raised' = FALSE
            /\ UNCHANGED <<language_codes, attempt, attempt_log, waits>>
            /\ IF listing.kind = "raise"
               THEN /\ result' = Absent
                    /\ fetch_calls' = fetch_calls
                    /\ fetched' = <<>>
               ELSE \E candidates \in {Candidates(listing.value)} :
                    LET n     == Len(candidates)
                        first == FirstFetched(SubSeq(fetches, 1, n))
                        tried == IF first = 0 THEN n ELSE first
                    IN  /\ fetch_calls' = fetch_calls + tried
                        /\ fetched' = [i \in 1..tried |->
                                           Fetched(candidates[i], fetches[i])]
                        /\ result' =
                              IF first = 0 THEN Absent
                              ELSE [note |-> "Fallback language - not in preferred list"]
                                   @@ TranscriptRecord(input,
                                          candidates[first].language_code,
                                          candidates[first],
                                          fetches[first].value,
                                          formatter, cleaning_raises)

\* get_transcript_languages
LanguageInfo(transcript_list) ==
    [i \in 1..Len(transcript_list) |->
        [language        |-> transcript_list[i].language,
         language_code   |-> transcript_list[i].language_code,
         is_generated    |-> transcript_list[i].is_generated,
         is_translatable |-> transcript_list[i].is_translatable]]

LanguageList(items) == [kind |-> "languages", items |-> items]

GetTranscriptLanguages(input, listing) ==
    /\ pc = "idle"
    /\ UNCHANGED scout
    /\ IF ~enabled \/ _extract_video_id(input) = None
       THEN ReturnEarly("get_transcript_languages", input, LanguageList(<<>>))
       ELSE /\ pc' = "returned"
            /\ op' = "get_transcript_languages"
            /\ video_input' = input
            /\ video_id' = _extract_video_id(input)
            /\ list_calls' = list_calls + 1
            /\ service_listing' = listing
            /\ raised' = FALSE
            /\ result' = IF listing.kind = "raise"
                         THEN LanguageList(<<>>)
                         ELSE LanguageList(LanguageInfo(listing.value))
            /\ UNCHANGED <<language_codes, attempt, attempt_log, fetch_calls,
                           waits, fetched>>

health_check_formatter_inverted(is_enabled, api_available, has_formatter, now) ==
    [enabled             |-> is_enabled,
     api_available       |-> api_available,
     formatter_available |-> ~has_formatter,
     timestamp           |-> now]

\* the dict health_check returns; now is time.time()
health_check(is_enabled, api_available, has_formatter, now) ==
    [enabled             |-> is_enabled,
     api_available       |-> api_available,
     formatter_available |-> has_formatter,
     timestamp           |-> now]

HealthStatus(fields) == [kind |-> "health", fields |-> fields]

HealthCheck(now) ==
    /\ pc = "idle"
    /\ UNCHANGED scout
    /\ ReturnEarly("health_check", None,
                   HealthStatus(health_check(enabled,
                                             TRANSCRIPT_API_AVAILABLE(api_variant),
                                             formatter, now)))

\* the caller takes the result; the operation's locals are gone
Done ==
    /\ pc = "returned"
    /\ UNCHANGED scout
    /\ pc' = "idle"
    /\ op' = "none"
    /\ video_input' = None
    /\ video_id' = None
    /\ language_codes' = <<>>
    /\ attempt' = 0
    /\ attempt_log' = <<>>
    /\ list_calls' = 0
    /\ fetch_calls' = 0
    /\ waits' = <<>>
    /\ service_listing' = NoAnswer
    /\ fetched' = <<>>
    /\ result' = Absent
    /\ raised' = FALSE

FetchAnswerSeqs == [1..MaxTracks -> CandidateFetchAnswers]

\* A caller of the scout's public operations; the quantified inputs are its
\* arguments and the service's answers.
CallGetTranscript ==
    /\ pc = "idle"
    /\ \E input \in VideoInputs, codes_arg \in LanguageArgs :
           GetTranscript(input, codes_arg)
    /\ UNCHANGED <<main_vars, score_vars>>

CallGetTranscriptAnyLanguage ==
    /\ pc = "idle"
    /\ \E input \in VideoInputs,
          listing \in ListingAnswers(api_variant),
          fetches \in FetchAnswerSeqs,
          cleaning_raises \in BOOLEAN :
           GetTranscriptAnyLanguage(input, listing, fetches, cleaning_raises)
    /\ UNCHANGED <<main_vars, score_vars>>

CallGetTranscriptLanguages ==
    /\ pc = "idle"
    /\ \E input \in VideoInputs, listing \in ListingAnswers(api_variant) :
           GetTranscriptLanguages(input, listing)
    /\ UNCHANGED <<main_vars, score_vars>>

\* the readings of the clock
Timestamps == {1, 2}

CallHealthCheck ==
    /\ pc = "idle"
    /\ \E now \in Timestamps : HealthCheck(now)
    /\ UNCHANGED <<main_vars, score_vars>>

Retry ==
    /\ pc = "attempt"
    /\ \E listing \in ListingAnswers(api_variant),
          fetch \in FetchAnswers(api_variant) :
           \E cleaning_raises \in CleaningChoices(fetch) :
               Attempt(listing, fetch, cleaning_raises)
    /\ UNCHANGED <<main_vars, score_vars>>

TakeResult ==
    /\ Done
    /\ UNCHANGED <<main_vars, score_vars>>

Next ==
    \/ CallGetTranscript
    \/ CallGetTranscriptAnyLanguage
    \/ CallGetTranscriptLanguages
    \/ CallHealthCheck
    \/ Retry
    \/ TakeResult

Spec == Init /\ [][Next]_vars

-----------------------------------------------------------------------------
(* The two fetch operations with a retry loop that runs on.                *)

\* the service lists at most one track
LiveListingAnswers(variant) ==
    {Raise(e) : e \in RaisedKinds(variant)} \cup {Return(l) : l \in ListingsUpTo(1)}

RetryLive ==
    /\ pc = "attempt"
    /\ \E listing \in LiveListingAnswers(api_variant),
          fetch \in FetchAnswers(api_variant) :
           \E cleaning_raises \in CleaningChoices(fetch) :
               Attempt(listing, fetch, cleaning_raises)
    /\ UNCHANGED <<main_vars, score_vars>>

\* the call main() makes when get_transcript returned nothing
AnyLanguageLive ==
    /\ pc = "idle"
    /\ \E input \in VideoInputs,
          listing \in LiveListingAnswers(api_variant),
          fetches \in FetchAnswerSeqs,
          cleaning_raises \in BOOLEAN :
           GetTranscriptAnyLanguage(input, listing, fetches, cleaning_raises)
    /\ UNCHANGED <<main_vars, score_vars>>

NextLive ==
    \/ CallGetTranscript
    \/ AnyLanguageLive
    \/ RetryLive
    \/ TakeResult

\* an attempt returns or raises, and time.sleep returns
SpecLive == Init /\ [][NextLive]_vars /\ WF_vars(RetryLive)

-----------------------------------------------------------------------------
(* has_good_transcript_potential on its own.                               *)

ScoreDurations == {0, 45, 59, 60, 61, 180, 181, 600, 601, 1800, 1801, 2400}

ScoreCategories == {"", "Music", "Education", "News & Sports", "Gaming"}

ScoreTitles ==
    {"Official Music Video (Lyrics)", "Full Interview: How AI Works",
     "Piano Cover", "Live Stream Highlights", "Daily Vlog", "Sunset",
     "Podcast Remix Live"}

ScoreVideos ==
    {[title |-> t, category_name |-> c, duration_seconds |-> d] :
        t \in ScoreTitles, c \in ScoreCategories, d \in ScoreDurations}
    \cup {[title |-> t, duration_seconds |-> d] :
        t \in ScoreTitles, d \in ScoreDurations}

InitScore ==
    /\ ScoutInit
    /\ MainOff
    /\ video_data \in ScoreVideos
    /\ score_result = NoScore
    /\ helper = NoHelper

HasGoodTranscriptPotential ==
    /\ score_result = NoScore
    /\ score_result' = [kind   |-> "scored",
                        \* `score` after the duration block and at the return
                        after_duration |->
                            DurationScore(Get(video_data, "duration_seconds", 0)),
                        \* `score` after the category block
                        after_category |->
                            DurationScore(Get(video_data, "duration_seconds", 0))
                            + CategoryScore(Lower(Get(video_data, "category_name", ""))),
                        score  |-> score(video_data),
                        return |-> has_good_transcript_potential(video_data)]
    /\ UNCHANGED <<scout, call_vars, main_vars, video_data, helper>>

NextScore == HasGoodTranscriptPotential

SpecScore == InitScore /\ [][NextScore]_vars

-----------------------------------------------------------------------------
(* _extract_video_id on its own, and on the value it returned.             *)

\* a helper has been called and has not returned yet
Pending == "<pending>"

ResolverPrefixes ==
    {"https://www.youtube.com/watch?v=", "https://youtu.be/",
     "https://www.youtube.com/embed/", "https://www.youtube.com/watch?list=PL1&v=",
     "https://youtube.com/watch?t=5&v=", "https://example.com/watch?v=",
     "//youtu.be/", "youtu.be/"}

ResolverIds ==
    {ValidId, "abc_DEF-123", "abcdefghi!!", "abc def ghi", "short",
     ValidId \o "z"}

ResolverSuffixes == {"", "&t=10", "?t=10", "#t"}

ResolverInputs ==
    {"", "not a video", "abcdefghij\n"}
    \cup ResolverIds
    \cup {p \o i \o x : p \in ResolverPrefixes, i \in ResolverIds, x \in ResolverSuffixes}

InitResolve ==
    /\ ScoutInit
    /\ MainOff
    /\ video_data = NoVideo
    /\ score_result = NoScore
    /\ \E input \in ResolverInputs :
           helper = [fn |-> "_extract_video_id", arg |-> input,
                     out |-> Pending, again |-> Pending]

ExtractVideoId ==
    /\ helper.fn = "_extract_video_id"
    /\ helper.out = Pending
    /\ helper' = [helper EXCEPT !.out = _extract_video_id(helper.arg)]
    /\ UNCHANGED <<scout, call_vars, main_vars, video_data, score_result>>

\* the caller resolves the identifier it was given once more
ExtractVideoIdAgain ==
    /\ helper.fn = "_extract_video_id"
    /\ helper.out \notin {Pending, None}
    /\ helper.again = Pending
    /\ helper' = [helper EXCEPT !.again = _extract_video_id(helper.out)]
    /\ UNCHANGED <<scout, call_vars, main_vars, video_data, score_result>>

NextResolve ==
    \/ ExtractVideoId
    \/ ExtractVideoIdAgain

SpecResolve == InitResolve /\ [][NextResolve]_vars

-----------------------------------------------------------------------------
(* _calculate_duration_covered on its own.                                 *)

MaxCues == 2

CueStarts == {-2, 0, 3}

CueDurations == {-4, 0, 2}

\* cues with and without the 'start' and 'duration' keys
DurationCues ==
    {Cue("so", st, d) : st \in CueStarts, d \in CueDurations}
    \cup {[text |-> "so"]}
    \cup {[text |-> "so", start |-> st] : st \in CueStarts}

DurationCueSeqs == UNION {[1..k -> DurationCues] : k \in 0..MaxCues}

InitDuration ==
    /\ ScoutInit
    /\ MainOff
    /\ video_data = NoVideo
    /\ score_result = NoScore
    /\ \E transcript_data \in DurationCueSeqs :
           helper = [fn |-> "_calculate_duration_covered", arg |-> transcript_data]

CalculateDurationCovered ==
    /\ helper.fn = "_calculate_duration_covered"
    /\ "out" \notin DOMAIN helper
    /\ helper' = [out |-> _calculate_duration_covered(helper.arg)] @@ helper
    /\ UNCHANGED <<scout, call_vars, main_vars, video_data, score_result>>

NextDuration == CalculateDurationCovered

SpecDuration == InitDuration /\ [][NextDuration]_vars

-----------------------------------------------------------------------------
(* _format_transcript on its own, and on the string it returned.           *)

FormatTexts ==
    {"hello world", " [Music] ", "so  today", "[Music] hello", "a [b [c] ]",
     "", "x"}

\* cues with a text, and a cue without the 'text' key
FormatCues == {Cue(t, 0, 2) : t \in FormatTexts} \cup {[start |-> 0, duration |-> 2]}

FormatCueSeqs == UNION {[1..k -> FormatCues] : k \in 0..MaxCues}

\* the try block raises: the library formatter reads line['text'] of every
\* cue; entry.get('text', '') of the fallback loop raises for no cue
FormattingRaises(transcript_data, has_formatter) ==
    /\ has_formatter
    /\ \E i \in 1..Len(transcript_data) : "text" \notin DOMAIN transcript_data[i]

InitFormat ==
    /\ ScoutInit
    /\ MainOff
    /\ video_data = NoVideo
    /\ score_result = NoScore
    /\ \E transcript_data \in FormatCueSeqs :
           helper = [fn |-> "_format_transcript", arg |-> transcript_data,
                     out |-> Pending, again |-> Pending]

FormatTranscript ==
    /\ helper.fn = "_format_transcript"
    /\ helper.out = Pending
    /\ helper' = [helper EXCEPT
                     !.out = _format_transcript(helper.arg, formatter,
                                 FormattingRaises(helper.arg, formatter))]
    /\ UNCHANGED <<scout, call_vars, main_vars, video_data, score_result>>

\* the returned string is formatted once more, as the text of a single cue
FormatTranscriptAgain ==
    /\ helper.fn = "_format_transcript"
    /\ helper.out # Pending
    /\ helper.again = Pending
    /\ \E again \in {<<Cue(helper.out, 0, 2)>>} :
           helper' = [helper EXCEPT
                         !.again = _format_transcript(again, formatter,
                                       FormattingRaises(again, formatter))]
    /\ UNCHANGED <<scout, call_vars, main_vars, video_data, score_result>>

NextFormat ==
    \/ FormatTranscript
    \/ FormatTranscriptAgain

SpecFormat == InitFormat /\ [][NextFormat]_vars

-----------------------------------------------------------------------------
(* main(): the music filter, the potential filter and the fetch loop.      *)

MaxVideos == 2

TopCount == 10

MusicCategoryId == "10"

MainVideos ==
    { [video_id |-> ValidId, title |-> "Full Interview: How AI Works",
       category_id |-> "27", duration_seconds |-> 2400],
      [video_id |-> "lowScore_01", title |-> "Official Music Video (Lyrics)",
       category_id |-> "24", duration_seconds |-> 45],
      [video_id |-> "musicVid_01", title |-> "Podcast Live",
       category_id |-> MusicCategoryId, duration_seconds |-> 700],
      [video_id |-> "tutorial_02", title |-> "Daily Vlog",
       category_id |-> "22", duration_seconds |-> 700] }

\* the lists get_trending_videos can return: no video twice
RawLists ==
    UNION { {l \in [1..k -> MainVideos] : \A i, j \in 1..k : l[i] = l[j] => i = j}
            : k \in 0..MaxVideos }

MainTracks ==
    { Track("English (auto-generated)", "en-US", TRUE, TRUE),
      Track("French", "fr", FALSE, FALSE) }

MainListings == {<<>>} \cup {<<t>> : t \in MainTracks}

MainCues == <<Cue("hello world", 0, 2)>>

MainRaisedKinds(variant) ==
    RaisedKinds(variant) \cap {"TooManyRequests", "VideoUnavailable", "Other"}

MainListingAnswers(variant) ==
    {Raise(e) : e \in MainRaisedKinds(variant)} \cup {Return(l) : l \in MainListings}

MainFetchAnswers(variant) ==
    {Raise(e) : e \in MainRaisedKinds(variant)} \cup {Return(<<>>), Return(MainCues)}

InitMain ==
    /\ ScoutInit
    /\ ScoreOff
    /\ trending_videos_raw \in RawLists
    /\ trending_videos = <<>>
    /\ high_potential_videos = <<>>
    /\ videos_with_transcripts = <<>>
    /\ videos_without_transcripts = <<>>
    /\ main_pc = "start"
    /\ cursor = 0
    /\ calls = <<>>

\* Python: seq[:n]
Take(seq, n) == SubSeq(seq, 1, IF n < Len(seq) THEN n ELSE Len(seq))

\* Python: video in videos (dict equality)
InList(video, videos) ==
    \E j \in 1..Len(videos) : trending_videos_raw[videos[j]] = trending_videos_raw[video]

\* the music filter, the top-10 cut and the potential filter
MainFilter ==
    /\ main_pc = "start"
    /\ \E kept \in {Take(SelectSeq([i \in 1..Len(trending_videos_raw) |-> i],
                                   LAMBDA v : Get(trending_videos_raw[v], "category_id", None)
                                                  # MusicCategoryId),
                         TopCount)} :
           /\ trending_videos' = kept
           /\ IF Len(kept) = 0
              THEN /\ main_pc' = "returned_false"
                   /\ UNCHANGED <<high_potential_videos, cursor>>
              ELSE /\ main_pc' = "loop"
                   /\ high_potential_videos' =
                          SelectSeq(kept, LAMBDA v :
                              has_good_transcript_potential(trending_videos_raw[v]))
                   /\ cursor' = 1
    /\ UNCHANGED <<trending_videos_raw, videos_with_transcripts,
                   videos_without_transcripts, calls>>
    /\ UNCHANGED <<scout, call_vars, score_vars>>

CurrentVideo == high_potential_videos[cursor]

\* transcript_scout.get_transcript(video['video_id'])
MainGetTranscript ==
    /\ main_pc = "loop"
    /\ cursor <= Len(high_potential_videos)
    /\ pc = "idle"
    /\ GetTranscript(trending_videos_raw[CurrentVideo].video_id, DefaultArg)
    /\ main_pc' = "preferred"
    /\ calls' = Append(calls, [op |-> "get_transcript", video |-> CurrentVideo])
    /\ UNCHANGED <<trending_videos_raw, trending_videos, high_potential_videos,
                   videos_with_transcripts, videos_without_transcripts, cursor>>
    /\ UNCHANGED score_vars

MainRetry ==
    /\ main_pc = "preferred"
    /\ pc = "attempt"
    /\ \E listing \in MainListingAnswers(api_variant),
          fetch \in MainFetchAnswers(api_variant) :
           Attempt(listing, fetch, FALSE)
    /\ UNCHANGED <<main_vars, score_vars>>

\* video['transcript'] = transcript; videos_with_transcripts.append(video)
WithTranscript(transcript) ==
    /\ trending_videos_raw' =
           [trending_videos_raw EXCEPT
               ![CurrentVideo] = [transcript |-> transcript] @@ @]
    /\ videos_with_transcripts' = Append(videos_with_transcripts, CurrentVideo)
    /\ UNCHANGED videos_without_transcripts

WithoutTranscriptMarked ==
    /\ trending_videos_raw' =
           [trending_videos_raw EXCEPT ![CurrentVideo] = [transcript |-> Absent] @@ @]
    /\ videos_without_transcripts' = Append(videos_without_transcripts, CurrentVideo)
    /\ UNCHANGED videos_with_transcripts

\* videos_without_transcripts.append(video), from the else or the except branch
WithoutTranscript ==
    /\ videos_without_transcripts' = Append(videos_without_transcripts, CurrentVideo)
    /\ UNCHANGED <<trending_videos_raw, videos_with_transcripts>>

\* the last entry of `calls` with how the call ended
NoteReturn ==
    [calls EXCEPT ![Len(calls)] =
        [returned |-> IF raised THEN "raised" ELSE result.kind] @@ @]

MainAfterPreferredAlwaysFallback ==
    /\ main_pc = "preferred"
    /\ pc = "returned"
    /\ Done
    /\ calls' = NoteReturn
    /\ IF raised
       THEN /\ WithoutTranscript
            /\ cursor' = cursor + 1
            /\ main_pc' = "loop"
       ELSE /\ main_pc' = "any"
            /\ UNCHANGED <<trending_videos_raw, videos_with_transcripts,
                           videos_without_transcripts, cursor>>
    /\ UNCHANGED <<trending_videos, high_potential_videos>>
    /\ UNCHANGED score_vars

\* get_transcript has returned: 'if not transcript' and what follows
MainAfterPreferred ==
    /\ main_pc = "preferred"
    /\ pc = "returned"
    /\ Done
    /\ calls' = NoteReturn
    /\ IF raised
       THEN /\ WithoutTranscript
            /\ cursor' = cursor + 1
            /\ main_pc' = "loop"
       ELSE IF result.kind = "transcript"
       THEN /\ WithTranscript(result)
            /\ cursor' = cursor + 1
            /\ main_pc' = "loop"
       ELSE /\ main_pc' = "any"
            /\ UNCHANGED <<trending_videos_raw, videos_with_transcripts,
                           videos_without_transcripts, cursor>>
    /\ UNCHANGED <<trending_videos, high_potential_videos>>
    /\ UNCHANGED score_vars

\* transcript_scout.get_transcript_any_language(video['video_id'])
MainGetTranscriptAnyLanguage ==
    /\ main_pc = "any"
    /\ pc = "idle"
    /\ \E listing \in MainListingAnswers(api_variant),
          fetches \in [1..MaxTracks -> MainFetchAnswers(api_variant)] :
           GetTranscriptAnyLanguage(trending_videos_raw[CurrentVideo].video_id,
                                    listing, fetches, FALSE)
    /\ main_pc' = "any_returned"
    /\ calls' = Append(calls, [op |-> "get_transcript_any_language",
                               video |-> CurrentVideo])
    /\ UNCHANGED <<trending_videos_raw, trending_videos, high_potential_videos,
                   videos_with_transcripts, videos_without_transcripts, cursor>>
    /\ UNCHANGED score_vars

\* get_transcript_any_language has returned: 'if transcript' and what follows
MainAfterAnyLanguage ==
    /\ main_pc = "any_returned"
    /\ pc = "returned"
    /\ Done
    /\ calls' = NoteReturn
    /\ IF ~raised /\ result.kind = "transcript"
       THEN WithTranscript(result)
       ELSE WithoutTranscript
    /\ cursor' = cursor + 1
    /\ main_pc' = "loop"
    /\ UNCHANGED <<trending_videos, high_potential_videos>>
    /\ UNCHANGED score_vars

MainIncludeRemainingAll ==
    /\ main_pc = "loop"
    /\ cursor > Len(high_potential_videos)
    /\ videos_without_transcripts' = videos_without_transcripts \o trending_videos
    /\ main_pc' = "stage_done"
    /\ UNCHANGED <<trending_videos_raw, trending_videos, high_potential_videos,
                   videos_with_transcripts, cursor, calls>>
    /\ UNCHANGED <<scout, call_vars, score_vars>>

\* 'Include remaining videos for metadata-only analysis'
MainIncludeRemaining ==
    /\ main_pc = "loop"
    /\ cursor > Len(high_potential_videos)
    /\ videos_without_transcripts' =
           videos_without_transcripts
           \o SelectSeq(trending_videos,
                        LAMBDA v : ~InList(v, high_potential_videos))
    /\ main_pc' = "stage_done"
    /\ UNCHANGED <<trending_videos_raw, trending_videos, high_potential_videos,
                   videos_with_transcripts, cursor, calls>>
    /\ UNCHANGED <<scout, call_vars, score_vars>>

\* the 'Transcript Results' log lines: the success rate divides by
\* len(high_potential_videos), and a ZeroDivisionError leaves main() through
\* the 'except Exception: ... raise' of its try block
MainLogResults ==
    /\ main_pc = "stage_done"
    /\ main_pc' = IF Len(high_potential_videos) = 0 THEN "raised" ELSE "analysis"
    /\ UNCHANGED <<trending_videos_raw, trending_videos, high_potential_videos,
                   videos_with_transcripts, videos_without_transcripts, cursor,
                   calls>>
    /\ UNCHANGED <<scout, call_vars, score_vars>>

\* the analysis calls, which return a dict or None, and the daily brief:
\* transcript_success_rate is guarded by 'if high_potential_videos',
\* overall_success_rate divides by len(trending_videos), which is not 0 here,
\* and average_word_count is guarded by 'if videos_with_transcripts'
MainAnalyze ==
    /\ main_pc = "analysis"
    /\ Len(trending_videos) # 0
    /\ main_pc' = "save"
    /\ UNCHANGED <<trending_videos_raw, trending_videos, high_potential_videos,
                   videos_with_transcripts, videos_without_transcripts, cursor,
                   calls>>
    /\ UNCHANGED <<scout, call_vars, score_vars>>

\* 'Save results': writing data/daily_brief.json succeeds or raises
MainSave ==
    /\ main_pc = "save"
    /\ \E written \in BOOLEAN :
           main_pc' = IF written THEN "returned_true" ELSE "save_raised"
    /\ UNCHANGED <<trending_videos_raw, trending_videos, high_potential_videos,
                   videos_with_transcripts, videos_without_transcripts, cursor,
                   calls>>
    /\ UNCHANGED <<scout, call_vars, score_vars>>

NextMain ==
    \/ MainFilter
    \/ MainGetTranscript
    \/ MainRetry
    \/ MainAfterPreferred
    \/ MainGetTranscriptAnyLanguage
    \/ MainAfterAnyLanguage
    \/ MainIncludeRemaining
    \/ MainLogResults
    \/ MainAnalyze
    \/ MainSave

SpecMain == InitMain /\ [][NextMain]_vars

-----------------------------------------------------------------------------
(* Properties of the retry and classification layer.                       *)

PermanentKinds == {"TranscriptsDisabled", "NoTranscriptFound", "VideoUnavailable"}

InGetTranscript == op = "get_transcript"

Returned(name) == op = name /\ pc = "returned"

Outcomes == [k \in 1..Len(attempt_log) |-> attempt_log[k].outcome]

\* C1: whatever the service answers on each attempt, get_transcript ends
\* with a transcript record or absence and no exception leaves it; inside
\* the retry loop an attempt is always left to make.
C1_TranscriptOrAbsence ==
    /\ InGetTranscript => ~raised
    /\ Returned("get_transcript") => result.kind \in {"transcript", "absent"}
    /\ (InGetTranscript /\ pc = "attempt") => attempt < max_retries

\* three attempts that each ended in an unclassified exception raised by fetch()
C1_Witness ==
    /\ Returned("get_transcript")
    /\ Outcomes = <<"Other", "Other", "Other">>
    /\ fetch_calls = 3
    /\ result = Absent

\* C2: get_transcript makes at most 3 attempts; after three rate-limit
\* failures it has returned absence and no 4th attempt is made.
C2_RetryCap ==
    InGetTranscript =>
        /\ Len(attempt_log) <= 3
        /\ list_calls <= 3
        /\ Outcomes = <<"TooManyRequests", "TooManyRequests", "TooManyRequests">>
               => /\ pc = "returned"
                  /\ result = Absent
                  /\ ~raised

C2_Witness ==
    /\ Returned("get_transcript")
    /\ Outcomes = <<"TooManyRequests", "TooManyRequests", "TooManyRequests">>
    /\ list_calls = 3

\* C3: an attempt that ends in a permanent error (captions disabled, no
\* track found, video unavailable) is the last one: absence is returned at
\* that attempt, with no further listing or fetch call and no wait after it.
C3_PermanentEndsCall ==
    InGetTranscript =>
        \A k \in 1..Len(attempt_log) :
            attempt_log[k].outcome \in PermanentKinds =>
                /\ k = Len(attempt_log)
                /\ pc = "returned"
                /\ result = Absent
                /\ ~raised
                /\ list_calls = k
                /\ fetch_calls <= k
                /\ Len(waits) = k - 1

\* a video found unavailable on the third attempt, after two transient failures
C3_Witness ==
    /\ Returned("get_transcript")
    /\ Len(attempt_log) = 3
    /\ attempt_log[3].outcome = "VideoUnavailable"
    /\ Len(waits) = 2

\* C4: an attempt whose listing holds zero tracks makes that one listing
\* call and no fetch, and is the last attempt: the call returns absence
\* without a retry or a wait; when it is the first attempt the whole call
\* made exactly one listing call.
C4_EmptyListing ==
    InGetTranscript =>
        \A k \in 1..Len(attempt_log) :
            attempt_log[k].listed = "empty" =>
                /\ k = Len(attempt_log)
                /\ pc = "returned"
                /\ result = Absent
                /\ ~raised
                /\ service_listing = Return(<<>>)
                /\ fetched = <<>>
                /\ list_calls = k
                /\ Len(waits) = k - 1
                /\ k = 1 => (list_calls = 1 /\ fetch_calls = 0 /\ waits = <<>>)

C4_Witness ==
    /\ Returned("get_transcript")
    /\ Len(attempt_log) = 1
    /\ attempt_log[1].listed = "empty"
    /\ list_calls = 1
    /\ fetch_calls = 0
    /\ result = Absent

-----------------------------------------------------------------------------
(* Properties of language resolution.                                      *)

HasCode(transcript_list, code) ==
    \E i \in 1..Len(transcript_list) : transcript_list[i].language_code = code

ExampleListing(transcript_list) ==
    /\ Len(transcript_list) = 2
    /\ \E i \in 1..2 : transcript_list[i] = Track("Spanish", "es", FALSE, TRUE)
    /\ \E i \in 1..2 :
           transcript_list[i] = Track("English (auto-generated)", "en-US", TRUE, TRUE)

\* C5: when some preferred code has a track with exactly that code, the
\* chosen language is the first such code in preference order, whatever
\* generated tracks are listed; with preferences en, es and a listing of a
\* manual es track and a generated en-US track the choice is es.
C5_ExactPassFirst ==
    (InGetTranscript /\ service_listing.kind = "return" /\ fetched # <<>>) =>
        LET l    == service_listing.value
            hits == {k \in 1..Len(language_codes) : HasCode(l, language_codes[k])}
        IN  /\ hits # {} =>
                /\ fetched[1].track.language_code = language_codes[Min(hits)]
                /\ result.kind = "transcript" =>
                       result.language = language_codes[Min(hits)]
            /\ (language_codes = <<"en", "es">> /\ ExampleListing(l)) =>
                   /\ fetched[1].track = Track("Spanish", "es", FALSE, TRUE)
                   /\ result.kind = "transcript" => result.language = "es"

C5_Witness ==
    /\ Returned("get_transcript")
    /\ language_codes = <<"en", "es">>
    /\ service_listing.kind = "return"
    /\ ExampleListing(service_listing.value)
    /\ result.kind = "transcript"
    /\ result.language = "es"
    /\ ~result.is_generated

\* position of a track in a listing without repeated tracks
IndexOf(transcript_list, track) ==
    CHOOSE i \in 1..Len(transcript_list) : transcript_list[i] = track

\* track a is tried before track b: generated before manual, else listing order
TriedBefore(transcript_list, a, b) ==
    \/ a.is_generated /\ ~b.is_generated
    \/ /\ a.is_generated = b.is_generated
       /\ IndexOf(transcript_list, a) < IndexOf(transcript_list, b)

FetchGave(answer) == answer.kind = "return" /\ Len(answer.value) > 0

\* C6: get_transcript_any_language fetches the generated tracks in listing
\* order, then the manual ones; it skips a candidate whose fetch raises or
\* is empty, returns the record of the first candidate whose fetch gives
\* cues, and returns absence only when the listing failed or every
\* candidate was tried and failed.
C6_AnyLanguageOrder ==
    (Returned("get_transcript_any_language") /\ enabled) =>
        /\ ~raised
        /\ list_calls = 1
        /\ service_listing.kind = "raise" => (result = Absent /\ fetched = <<>>)
        /\ service_listing.kind = "return" =>
              LET l == service_listing.value
                  n == Len(fetched)
              IN  /\ \A i \in 1..n : \E j \in 1..Len(l) : l[j] = fetched[i].track
                  /\ \A i, j \in 1..n :
                         i < j => TriedBefore(l, fetched[i].track, fetched[j].track)
                  /\ \A j \in 1..Len(l) :
                         (\A i \in 1..n : fetched[i].track # l[j]) =>
                             /\ n > 0
                             /\ FetchGave(fetched[n].answer)
                             /\ TriedBefore(l, fetched[n].track, l[j])
                  /\ \A i \in 1..(n - 1) : ~FetchGave(fetched[i].answer)
                  /\ IF n > 0 /\ FetchGave(fetched[n].answer)
                     THEN /\ result.kind = "transcript"
                          /\ result.language = fetched[n].track.language_code
                          /\ result.is_generated = fetched[n].track.is_generated
                     ELSE result = Absent

\* a manual track listed first is fetched last, after a generated track
\* whose fetch raised
C6_Witness ==
    /\ Returned("get_transcript_any_language")
    /\ service_listing.kind = "return"
    /\ Len(service_listing.value) = 2
    /\ ~service_listing.value[1].is_generated
    /\ service_listing.value[2].is_generated
    /\ Len(fetched) = 2
    /\ fetched[1].answer.kind = "raise"
    /\ result.kind = "transcript"
    /\ ~result.is_generated

\* C7: when the captioning library failed to import, the scout is disabled
\* and every call of get_transcript, get_transcript_any_language and
\* get_transcript_languages returns absence (None or the empty list)
\* without a listing or fetch call.
C7_DisabledShortCircuits ==
    api_variant = "missing" =>
        /\ ~enabled
        /\ list_calls = 0
        /\ fetch_calls = 0
        /\ pc # "attempt"
        /\ ~raised
        /\ (pc = "returned" /\ op # "health_check") =>
              IF op = "get_transcript_languages"
              THEN result = LanguageList(<<>>)
              ELSE result = Absent

C7_Witness ==
    /\ api_variant = "missing"
    /\ Returned("get_transcript_any_language")
    /\ video_input = ValidId
    /\ result = Absent

\* C8: for an empty or unresolvable identifier get_transcript and
\* get_transcript_any_language return absence without raising and without
\* a listing call; the service is only ever called with the resolved
\* identifier.
C8_UnresolvableNoListing ==
    (pc = "returned" /\ op \in {"get_transcript", "get_transcript_any_language"}) =>
        /\ _extract_video_id(video_input) = None =>
               (result = Absent /\ ~raised /\ list_calls = 0)
        /\ list_calls > 0 => video_id = _extract_video_id(video_input)

-----------------------------------------------------------------------------
(* Properties of the potential filter.                                     *)

ScoreOf(v) == score(trending_videos_raw[v])

CalledFor(v) == \E i \in 1..Len(calls) : calls[i].video = v

ReferenceLow ==
    [title |-> "Official Music Video (Lyrics)", category_name |-> "Music",
     duration_seconds |-> 45]

ReferenceHigh ==
    [title |-> "Full Interview: How AI Works", category_name |-> "Education",
     duration_seconds |-> 2400]

\* C10: the 45-second 'Official Music Video (Lyrics)' in category Music
\* scores -8 and is rejected; the 2400-second 'Full Interview: How AI Works'
\* in category Education scores +8 and is accepted.
C10_ReferenceScores ==
    score_result.kind = "scored" =>
        /\ video_data = ReferenceLow =>
               (score_result.score = -8 /\ score_result.return = FALSE)
        /\ video_data = ReferenceHigh =>
               (score_result.score = 8 /\ score_result.return = TRUE)

C10_Witness ==
    /\ video_data = ReferenceLow
    /\ score_result.kind = "scored"
    /\ score_result.score = -8

-----------------------------------------------------------------------------
(* Properties of the video-ID resolver.                                    *)

\* exactly 11 characters of letters, digits, '_' and '-'
Canonical(id) == Len(id) = IdLen /\ AllIdChars(id)

Resolved == helper.fn = "_extract_video_id" /\ helper.out # Pending

\* C11: _extract_video_id returns an input of exactly 11 characters over
\* letters, digits, '_' and '-' unchanged, and resolving is idempotent: when
\* the resolution of x is not None, resolving that value again gives it back.
C11_ResolveIdempotent ==
    Resolved =>
        /\ Canonical(helper.arg) => helper.out = helper.arg
        /\ helper.again # Pending => helper.again = helper.out

\* C12: every result of _extract_video_id is None or a canonical identifier
\* of exactly 11 characters over letters, digits, '_' and '-', on every
\* branch, the generic URL-parse branch included.
C12_ResultCanonical ==
    Resolved => (helper.out = None \/ Canonical(helper.out))

-----------------------------------------------------------------------------
(* Properties of the derived fields.                                       *)

Covered == helper.fn = "_calculate_duration_covered" /\ "out" \in DOMAIN helper

\* what the last cue's start + duration exceeds the first cue's start by
Span(cues) ==
    LET first == cues[1]
        last  == cues[Len(cues)]
    IN  (IF "start" \in DOMAIN last THEN last.start ELSE 0)
        + (IF "duration" \in DOMAIN last THEN last.duration ELSE 0)
        - (IF "start" \in DOMAIN first THEN first.start ELSE 0)

\* C13: duration_covered is last_cue.start + last_cue.duration -
\* first_cue.start clamped to a minimum of 0: never negative for a non-empty
\* cue sequence, out-of-order and negative cues included, and exactly 0 for
\* the empty sequence.
C13_DurationClamped ==
    Covered =>
        /\ helper.out >= 0
        /\ helper.arg = <<>> => helper.out = 0
        /\ helper.arg # <<>> =>
               helper.out = IF Span(helper.arg) < 0 THEN 0 ELSE Span(helper.arg)

\* two cues out of order: the last one ends before the first one starts
C13_Witness ==
    /\ Covered
    /\ helper.arg = <<Cue("so", 3, 2), Cue("so", 0, 2)>>
    /\ Span(helper.arg) < 0
    /\ helper.out = 0

\* C14: formatting is idempotent: the string _format_transcript produced
\* for a cue sequence, fed back in as a single cue, yields the same string.
C14_FormatIdempotent ==
    (helper.fn = "_format_transcript" /\ helper.again # Pending) =>
        helper.again = helper.out

-----------------------------------------------------------------------------
(* Properties of the duration scoring.                                     *)

Scored == score_result.kind = "scored"

\* C15: the duration contribution to the score is +3 for d > 1800, +2 for
\* 600 < d <= 1800, +1 for 180 < d <= 600, 0 for 60 <= d <= 180 and -2 for
\* d < 60; no longer duration of the input set, the boundaries 60, 180, 600
\* and 1800 included, contributes less than a shorter one.
C15_DurationBands ==
    Scored =>
        LET d == video_data.duration_seconds
            c == score_result.after_duration
        IN  /\ d > 1800 => c = 3
            /\ (600 < d /\ d <= 1800) => c = 2
            /\ (180 < d /\ d <= 600) => c = 1
            /\ (60 <= d /\ d <= 180) => c = 0
            /\ d < 60 => c = -2
            /\ \A longer \in ScoreDurations :
                   d <= longer => c <= DurationScore(longer)
            /\ \A shorter \in ScoreDurations :
                   shorter <= d => DurationScore(shorter) <= c

\* a video of exactly 1800 seconds contributes +2, not +3
C15_Witness ==
    /\ Scored
    /\ video_data.duration_seconds = 1800
    /\ score_result.after_duration = 2

-----------------------------------------------------------------------------
(* Properties of the transcript stage of main().                           *)

\* how often the video dict at position v is in a list
Occurrences(v, videos) == Cardinality({j \in 1..Len(videos) : videos[j] = v})

HasTranscript(v) == "transcript" \in DOMAIN trending_videos_raw[v]

\* C16: after the transcript stage every video of the filtered trending
\* list is exactly once in videos_with_transcripts or
\* videos_without_transcripts, whatever the service answered; a video has a
\* 'transcript' field exactly when it is in videos_with_transcripts, and the
\* field holds one transcript record. No list ever holds a video twice.
C16_ExactlyOnce ==
    /\ \A v \in 1..Len(trending_videos_raw) :
           /\ Occurrences(v, videos_with_transcripts)
                  + Occurrences(v, videos_without_transcripts) <= 1
           /\ HasTranscript(v) <=> Occurrences(v, videos_with_transcripts) = 1
           /\ HasTranscript(v) =>
                  trending_videos_raw[v].transcript.kind = "transcript"
    /\ main_pc = "stage_done" =>
           /\ \A k \in 1..Len(trending_videos) :
                  Occurrences(trending_videos[k], videos_with_transcripts)
                      + Occurrences(trending_videos[k], videos_without_transcripts) = 1
           /\ Len(videos_with_transcripts) + Len(videos_without_transcripts)
                  = Len(trending_videos)

\* a run that fetched a transcript for one video and left another one out
C16_Witness ==
    /\ main_pc = "stage_done"
    /\ Len(trending_videos) = 2
    /\ Len(videos_with_transcripts) = 1
    /\ Len(videos_without_transcripts) = 1
    /\ HasTranscript(videos_with_transcripts[1])
    /\ ~HasTranscript(videos_without_transcripts[1])

\* C17: a run of main() over a non-empty filtered trending list tolerates
\* any transcript coverage: whatever the potential filter and the fetches
\* gave, no video passing the filter and no transcript at all included, it
\* goes on to the analysis and the saving of the daily brief without an
\* exception raised on the way.
C17_ToleratesCoverage ==
    (main_pc \notin {"off", "start"} /\ Len(trending_videos) > 0) =>
        main_pc # "raised"

Preferred(i) == calls[i].op = "get_transcript"

AnyLanguage(i) == calls[i].op = "get_transcript_any_language"

ReturnedAs(i, kind) == "returned" \in DOMAIN calls[i] /\ calls[i].returned = kind

\* C18: main() calls get_transcript_any_language for a video only right
\* after get_transcript for that same video returned absence; it never calls
\* it before the preferred-language call or for a video whose
\* preferred-language call returned a record.
C18_FallbackAfterAbsence ==
    \A i \in 1..Len(calls) :
        /\ AnyLanguage(i) =>
               /\ i > 1
               /\ Preferred(i - 1)
               /\ calls[i - 1].video = calls[i].video
               /\ ReturnedAs(i - 1, "absent")
        /\ (Preferred(i) /\ ReturnedAs(i, "transcript")) =>
               \A j \in 1..Len(calls) :
                   AnyLanguage(j) => calls[j].video # calls[i].video

\* one video needed the fallback, the next one did not
C18_Witness ==
    /\ main_pc = "stage_done"
    /\ Len(calls) = 3
    /\ Preferred(1) /\ ReturnedAs(1, "absent")
    /\ AnyLanguage(2) /\ calls[2].video = calls[1].video
    /\ Preferred(3) /\ ReturnedAs(3, "transcript")
    /\ calls[3].video # calls[1].video

\* the video dict with its 'transcript' field removed
Metadata(video) == [f \in DOMAIN video \ {"transcript"} |-> video[f]]

\* C19: a step of the transcript stage leaves every existing field of every
\* video dict as it was; the only change to a dict is a 'transcript' field
\* holding the record obtained, added in the step that puts the video into
\* videos_with_transcripts, and a video put into videos_without_transcripts
\* (absence or an exception) is left as it was.
C19_OnlyAddsTranscript ==
    [][ /\ Len(trending_videos_raw') = Len(trending_videos_raw)
        /\ \A v \in 1..Len(trending_videos_raw) :
               LET before == trending_videos_raw[v]
                   after  == trending_videos_raw'[v]
               IN  /\ \A f \in DOMAIN before :
                          f \in DOMAIN after /\ after[f] = before[f]
                   /\ DOMAIN after \ DOMAIN before \subseteq {"transcript"}
                   /\ after # before =>
                          /\ videos_with_transcripts' =
                                 Append(videos_with_transcripts, v)
                          /\ after.transcript.kind = "transcript"
                   /\ videos_without_transcripts' =
                          Append(videos_without_transcripts, v) => after = before
      ]_vars

\* a run that obtained a record for one video and none for another one that
\* passed the filter
C19_Witness ==
    /\ main_pc = "stage_done"
    /\ Len(high_potential_videos) = 2
    /\ \E v, w \in 1..Len(trending_videos_raw) :
           /\ HasTranscript(v)
           /\ Metadata(trending_videos_raw[v]) \in MainVideos
           /\ Occurrences(w, high_potential_videos) = 1
           /\ Occurrences(w, videos_without_transcripts) = 1
           /\ trending_videos_raw[w] \in MainVideos

-----------------------------------------------------------------------------
(* Properties of health_check.                                             *)

\* C20 as claimed: health_check returns a record with exactly the fields
\* enabled and service_reachable, enabled being false exactly when the
\* captioning library failed to import; enabled keeps its construction value.
C20_HealthRecord ==
    /\ enabled = (api_variant # "missing")
    /\ Returned("health_check") =>
           /\ DOMAIN result.fields = {"enabled", "service_reachable"}
           /\ result.fields.enabled = enabled

\* C20 as amended: health_check returns a record with exactly the fields
\* enabled, api_available, formatter_available and timestamp; enabled is
\* false exactly when the captioning library failed to import, api_available
\* is the import flag and formatter_available tells whether the formatter
\* was built; enabled keeps its construction value in every state.
C20_HealthRecordAmended ==
    /\ enabled = (api_variant # "missing")
    /\ Returned("health_check") =>
           /\ DOMAIN result.fields =
                  {"enabled", "api_available", "formatter_available", "timestamp"}
           /\ result.fields.enabled = enabled
           /\ result.fields.api_available = (api_variant # "missing")
           /\ result.fields.formatter_available = formatter
           /\ list_calls = 0
           /\ ~raised

\* the health check of a scout whose library import failed
C20_Witness ==
    /\ Returned("health_check")
    /\ api_variant = "missing"
    /\ ~result.fields.enabled
    /\ ~result.fields.formatter_available

-----------------------------------------------------------------------------
(* Properties of the backoff.                                              *)

\* the k-th attempt ended in one of these exceptions
EndedIn(k, kinds) == attempt_log[k].outcome \in kinds

\* C21: after a rate-limit failure on the attempt of 0-based index a that is
\* not the last attempt, get_transcript waits base * 2^a * 2: 2 after the
\* first failure and 4 after the second; after a failure of the third
\* attempt it does not wait.
C21_RateLimitBackoff ==
    InGetTranscript =>
        /\ Len(waits) <= 2
        /\ \A k \in 1..Len(attempt_log) :
               EndedIn(k, {"TooManyRequests"}) =>
                   IF k < 3
                   THEN /\ Len(waits) >= k
                        /\ waits[k] = base_delay * Pow2(k - 1) * 2
                        /\ waits[k] = (IF k = 1 THEN 2 ELSE 4)
                   ELSE /\ Len(waits) = 2
                        /\ pc = "returned"

\* rate limited three times: waits of 2 and 4, none after the third failure
C21_Witness ==
    /\ Returned("get_transcript")
    /\ Len(attempt_log) = 3
    /\ \A k \in 1..3 : EndedIn(k, {"TooManyRequests"})
    /\ waits = <<2, 4>>

\* C22: a request failure of the service's transport layer and any other
\* unclassified exception are retried with the standard backoff base * 2^a,
\* 1 after the first failure and 2 after the second, and never with the
\* doubled rate-limit backoff, also when the library has no rate-limit class
\* of its own and TooManyRequests is bound to YouTubeRequestFailed.
C22_StandardBackoff ==
    InGetTranscript =>
        \A k \in 1..Len(attempt_log) :
            (EndedIn(k, {"YouTubeRequestFailed", "Other"}) /\ k < 3) =>
                /\ Len(waits) >= k
                /\ waits[k] = base_delay * Pow2(k - 1)
                /\ waits[k] = (IF k = 1 THEN 1 ELSE 2)

-----------------------------------------------------------------------------
(* Properties of the generated and any-track passes.                       *)

\* the attempt listed tracks and fetched one of them
ChoseTrack ==
    /\ InGetTranscript
    /\ service_listing.kind = "return"
    /\ fetched # <<>>

\* the preferred codes that some listed track carries exactly
ExactHits(l) == {k \in 1..Len(language_codes) : HasCode(l, language_codes[k])}

GeneratedTracks(l) == {i \in 1..Len(l) : l[i].is_generated}

\* the generated tracks whose code starts with the k-th preferred code
PrefixMatches(l, k) ==
    {i \in GeneratedTracks(l) : StartsWith(l[i].language_code, language_codes[k])}

\* C23: when no listed track carries a preferred code exactly and a generated
\* track is listed, the chosen track is the first generated track, in
\* listing order, whose code starts with the earliest preferred code that
\* prefix-matches a generated track, preference order before listing order;
\* when no preferred code prefix-matches one, it is the first generated
\* track of the listing.
C23_GeneratedFallback ==
    ChoseTrack =>
        LET l    == service_listing.value
            hits == {k \in 1..Len(language_codes) : PrefixMatches(l, k) # {}}
        IN  (ExactHits(l) = {} /\ GeneratedTracks(l) # {}) =>
                /\ fetched[1].pass = 2
                /\ fetched[1].track =
                       IF hits # {} THEN l[Min(PrefixMatches(l, Min(hits)))]
                       ELSE l[Min(GeneratedTracks(l))]
                /\ result.kind = "transcript" =>
                       /\ result.language = fetched[1].track.language_code
                       /\ result.is_generated
                /\ (language_codes = <<"en", "es">> /\ Len(l) >= 2
                       /\ l[1].language_code = "es-MX"
                       /\ l[2].language_code = "en-US") =>
                       fetched[1].track.language_code = "en-US"

\* es-MX is listed before en-US and en is preferred to es: en-US is chosen
C23_Witness ==
    /\ Returned("get_transcript")
    /\ language_codes = <<"en", "es">>
    /\ service_listing.kind = "return"
    /\ Len(service_listing.value) = 2
    /\ service_listing.value[1].language_code = "es-MX"
    /\ service_listing.value[2].language_code = "en-US"
    /\ result.kind = "transcript"
    /\ result.language = "en-US"

\* C24: when no listed track carries a preferred code exactly and no
\* generated track is listed, the chosen track is the first track of the
\* listing, whatever its language; the any-track pass chooses only when
\* the exact pass and the generated pass chose nothing.
C24_AnyTrackFirst ==
    ChoseTrack =>
        LET l == service_listing.value
        IN  /\ (ExactHits(l) = {} /\ GeneratedTracks(l) = {}) =>
                   /\ fetched[1].pass = 3
                   /\ fetched[1].track = l[1]
                   /\ result.kind = "transcript" =>
                          /\ result.language = l[1].language_code
                          /\ result.is_generated = l[1].is_generated
            /\ fetched[1].pass = 3 =>
                   (ExactHits(l) = {} /\ GeneratedTracks(l) = {})

\* two manual tracks in languages that are not preferred: the first is taken
C24_Witness ==
    /\ Returned("get_transcript")
    /\ language_codes = <<"en", "es">>
    /\ service_listing.kind = "return"
    /\ Len(service_listing.value) = 2
    /\ service_listing.value[1].language_code = "de"
    /\ service_listing.value[2].language_code = "fr"
    /\ fetched # <<>>
    /\ fetched[1].pass = 3
    /\ result.kind = "transcript"
    /\ result.language = "de"

-----------------------------------------------------------------------------
(* Properties of the category and title scoring.                           *)

ScoredCategory == Lower(Get(video_data, "category_name", ""))

ScoredTitle == Lower(Get(video_data, "title", ""))

\* C25: the category contribution to the score is the sum of two independent
\* checks, +3 when the lower-cased category name contains a high-likelihood
\* term and -3 when it contains a low-likelihood term, so that a name
\* containing both 'news' and 'sports' contributes 0.
C25_CategoryIndependent ==
    Scored =>
        score_result.after_category - score_result.after_duration
            = (IF AnyIn(high_transcript_categories, ScoredCategory) THEN 3 ELSE 0)
              + (IF AnyIn(low_transcript_categories, ScoredCategory) THEN -3 ELSE 0)

\* C26: the title adjustments are independent and additive: +2 for a speech
\* indicator, -3 for a non-speech indicator, +1 for 'live' or 'stream' and
\* -2 more for 'cover' in a category containing 'music'; the cover penalty
\* comes on top of the category penalty and the non-speech title penalty.
C26_TitleAdditive ==
    Scored =>
        LET t == score_result.score - score_result.after_category
            c == score_result.after_category - score_result.after_duration
        IN  /\ t = (IF AnyIn(speech_indicators, ScoredTitle) THEN 2 ELSE 0)
                  + (IF AnyIn(non_speech_indicators, ScoredTitle) THEN -3 ELSE 0)
                  + (IF Contains(ScoredTitle, "live")
                        \/ Contains(ScoredTitle, "stream") THEN 1 ELSE 0)
                  + (IF Contains(ScoredTitle, "cover")
                        /\ Contains(ScoredCategory, "music") THEN -2 ELSE 0)
            /\ Get(video_data, "title", "") = "Podcast Remix Live" => t = 0
            /\ Get(video_data, "title", "") = "Live Stream Highlights" => t = -2
            /\ (/\ Get(video_data, "title", "") = "Piano Cover"
                /\ Get(video_data, "category_name", "") = "Music") =>
                   (c = -3 /\ t = -5)
            /\ (/\ Get(video_data, "title", "") = "Piano Cover"
                /\ Get(video_data, "category_name", "") # "Music") => t = -3

\* a speech and a non-speech indicator in one title: +2 - 3 + 1
C26_Witness ==
    /\ Scored
    /\ Get(video_data, "title", "") = "Podcast Remix Live"
    /\ Get(video_data, "category_name", "") = "Music"
    /\ video_data.duration_seconds = 2400
    /\ score_result.score = 0
    /\ score_result.return = TRUE

-----------------------------------------------------------------------------
(* Properties of the formatted text.                                       *)

Formatted == helper.fn = "_format_transcript" /\ helper.out # Pending

\* no leading, trailing or doubled whitespace
TidySpaces(s) ==
    /\ Strip(s) = s
    /\ \A i \in 1..(Len(s) - 1) :
           ~(IsSpace(CharAt(s, i)) /\ IsSpace(CharAt(s, i + 1)))

\* C27: when cleaning does not raise, the text _format_transcript returns
\* is the single-space join of the cleaned texts of the cues that are not
\* empty after cleaning: it has no leading, trailing or doubled spaces and
\* no bracketed span, and a cue that is only a bracketed annotation leaves
\* nothing behind.
C27_CleanedJoin ==
    (Formatted /\ ~FormattingRaises(helper.arg, formatter)) =>
        /\ TidySpaces(helper.out)
        /\ StripBrackets(helper.out) = helper.out
        /\ helper.arg = <<Cue("x", 0, 2), Cue(" [Music] ", 0, 2)>> =>
               helper.out = "x"

-----------------------------------------------------------------------------
(* Properties of the formatting fallback inside a fetch.                   *)

\* the call returned after formatting the fetched cues raised
CleaningRaised ==
    /\ Returned("get_transcript")
    /\ fetched # <<>>
    /\ fetched[1].cleaning_raised

\* C28: when cleaning the fetched cues raises, the text is the raw cue
\* texts joined by single spaces, unmodified, and get_transcript returns
\* the transcript record of that attempt: not absence, and no retry of the
\* attempt.
C28_RawJoinFallback ==
    CleaningRaised =>
        /\ result.kind = "transcript"
        /\ result.text = Join(RawParts(fetched[1].answer.value), " ")
        /\ result.word_count = WordCount(result.text)
        /\ attempt_log[Len(attempt_log)].outcome = "return"
        /\ Len(waits) = Len(attempt_log) - 1

\* two cues, the first attempt: the raw texts come back joined by a space
C28_Witness ==
    /\ CleaningRaised
    /\ Len(fetched[1].answer.value) = 2
    /\ Len(attempt_log) = 1
    /\ result.kind = "transcript"
    /\ result.text # ""

-----------------------------------------------------------------------------
(* Termination and cost of the retry loop.                                 *)

RECURSIVE SumSeq(_)
SumSeq(seq) == IF Len(seq) = 0 THEN 0 ELSE Head(seq) + SumSeq(Tail(seq))

\* the service calls and sleeps of the operation in progress
WithinRetryBudget ==
    /\ op = "get_transcript" =>
           /\ Len(attempt_log) <= 3
           /\ list_calls <= 3
           /\ fetch_calls <= 3
           /\ Len(waits) <= 2
           /\ SumSeq(waits) <= 6
    /\ op = "get_transcript_any_language" =>
           (list_calls <= 1 /\ waits = <<>>)

\* C29: every call of get_transcript that enters the retry loop returns,
\* whatever the service answers, having made at most 3 listing calls and
\* 3 cue fetches and slept at most twice, 6 time units in all; the
\* any-language operation main() calls next for the video lists once and
\* never sleeps, which makes at most 4 listing calls for a video.
C29_TerminatesWithinBudget ==
    /\ []WithinRetryBudget
    /\ (pc = "attempt") ~> (pc = "returned")

\* all three attempts rate limited at the cue fetch: 2 + 4 units of waiting
C29_Witness ==
    /\ Returned("get_transcript")
    /\ list_calls = 3
    /\ fetch_calls = 3
    /\ waits = <<2, 4>>
    /\ result = Absent

-----------------------------------------------------------------------------
(* The attempt that ends the retry loop.                                   *)

\* the kinds of failure after which the loop goes on
TransientOutcomes == {"TooManyRequests", "YouTubeRequestFailed", "Other"}

\* get_transcript returned from an attempt that did not raise
AttemptReturned ==
    /\ Returned("get_transcript")
    /\ attempt_log # <<>>
    /\ attempt_log[Len(attempt_log)].outcome = "return"

\* C30: when the attempts before attempt k (k <= 3) of get_transcript
\* failed with transient errors and attempt k does not raise, the call
\* returns what attempt k produced from its own listing and its one cue
\* fetch and makes no further attempt; each attempt makes its own listing
\* call, and an attempt whose chosen track fetches no cue returns absence
\* at once, with no other track tried and no retry.
C30_LastAttemptDecides ==
    /\ AttemptReturned =>
           LET k == Len(attempt_log)
           IN  /\ k <= 3
               /\ \A i \in 1..(k - 1) :
                      attempt_log[i].outcome \in TransientOutcomes
               /\ list_calls = k
               /\ Len(waits) = k - 1
               /\ service_listing.kind = "return"
               /\ Len(fetched) = 1
               /\ \E i \in 1..Len(service_listing.value) :
                      service_listing.value[i] = fetched[1].track
               /\ fetched[1].answer.kind = "return"
               /\ IF fetched[1].answer.value = <<>>
                  THEN result = Absent
                  ELSE /\ result.kind = "transcript"
                       /\ result.video_id = video_id
                       /\ result.is_generated = fetched[1].track.is_generated
                       /\ result.text =
                              _format_transcript(fetched[1].answer.value, formatter,
                                                 fetched[1].cleaning_raised)
    /\ (/\ Returned("get_transcript")
        /\ fetched # <<>>
        /\ fetched[1].answer = Return(<<>>)) =>
           /\ AttemptReturned
           /\ result = Absent
           /\ Len(fetched) = 1

\* two transient failures, then an attempt whose chosen track has no cue
\* although another track is listed
C30_Witness ==
    /\ AttemptReturned
    /\ Len(attempt_log) = 3
    /\ attempt_log[1].outcome = "TooManyRequests"
    /\ attempt_log[2].outcome = "Other"
    /\ Len(service_listing.value) = 2
    /\ fetched[1].answer = Return(<<>>)
    /\ result = Absent

====
